---- MODULE Spec2Model ----
(***************************************************************************)
(* Model of the Socket.io session coordinator of the Spatial Audio         *)
(* Conferencing Platform (server.js, kept here as src/unnamed/part_003).   *)
(*                                                                         *)
(* Socket ids and room ids live in ONE namespace of strings: socket.io     *)
(* puts every socket into a room named by its own id, and                  *)
(* socket.to(name).emit(..) reaches every socket of the room `name` except *)
(* the emitting socket.  Names are encoded as integers: socket ids are     *)
(* 1..NConns, the ordinary room ids are 101 and 102, 0 is `undefined`.     *)
(* userId and username are opaque values copied through the handlers and   *)
(* are left out of the records.                                            *)
(*                                                                         *)
(* The second half models the room page that talks to the coordinator:     *)
(* RoomManager (src/unnamed/part_001), WebRTCManager                       *)
(* (src/public/js/webrtc.js) and SpatialAudioManager                       *)
(* (src/unnamed/part_002).  Every connection carries one page load; a page *)
(* that is reloaded shows up as a new connection with a fresh page, and in *)
(* the reconnect specification a page whose transport dropped moves, with  *)
(* all it holds, to the connection socket.io-client opens for it.  What    *)
(* a page emits is handled by the server in the same step; what the server *)
(* emits to a page waits in the page's queue recvq until the page          *)
(* dispatches it.  An async handler is one step whose browser-decided      *)
(* outcome (resolve or throw) is the parameter ok.                         *)
(*                                                                         *)
(* The arithmetic of SpatialAudioManager (distance, gain, the two          *)
(* coordinate conversions) is computed in binary floating point with the   *)
(* rounding of every operation; the mapping specification applies it to    *)
(* drawn arguments, the audio specification to the positions a page        *)
(* receives.  The snapshot specification is the registry with the history  *)
(* of the values the update handlers stored.                               *)
(*                                                                         *)
(* The view specification adds the mute button and the participant         *)
(* records' mute flags, the media specification the rejection of           *)
(* getUserMedia.  The last part models POST /api/rooms/:roomId/join        *)
(* (src/server/routes/rooms.js): every sqlite3 callback of a request is    *)
(* one step, and the callbacks of different requests interleave.           *)
(***************************************************************************)
EXTENDS Integers, Sequences, FiniteSets, Bags, TLC

\* ---- bounds ----
MaxCoord == 1      \* positions are <<x, 0, 0>> with x in 0..MaxCoord
MaxPayload == 1    \* signaling payloads
RegConns == 2      \* sockets that connect (registry specification)
MaxJoins == 3      \* join-room events of one behaviour (registry specification)
MaxUpdates == 1    \* update events of one behaviour (registry and snapshot specifications)
RelayConns == 3    \* sockets that connect (relay specification)
RelayJoins == 2    \* join-room events of one behaviour (relay specification)
OrderConns == 2    \* sockets that connect (ordering specification)
MaxSent == 3       \* signaling messages sent in one behaviour (ordering specification)
ClientConns == 2   \* pages that open a room (client, candidate and page specifications)
MaxMoves == 1      \* position changes of one behaviour (page specification)
MaxCands == 1      \* ICE candidates gathered in one behaviour (candidate specification)
MaxFails == 1      \* negotiation failures of one behaviour (client, candidate and page specifications)
MaxLeaves == 1     \* pages that leave in one behaviour (client specification)
MaxToggles == 2    \* clicks on the spatial toggle in one behaviour (audio specification)
Precision == 10    \* bits of the significand of a number (53 in a double)
MaxPixel == 3      \* pointer coordinates 0..MaxPixel, besides the far edge of the canvas
MaxNear == 2       \* distances 0, 1/2, .., MaxNear/2
MaxFar == 3        \* distances 32, 64, .., 32 * MaxFar
MaxRequests == 3   \* POST /:roomId/join requests of one behaviour (join-route specification)
MaxUsers == 2      \* session user ids 1..MaxUsers

Max2(a, b) == IF a >= b THEN a ELSE b
NConns == Max2(Max2(RegConns, ClientConns), Max2(RelayConns, OrderConns))
Conns == 1..NConns
RoomIds == {101, 102}
Names == Conns \cup RoomIds
NoRoom == 0
Origin == <<0, 0, 0>>
Positions == {<<x, 0, 0>> : x \in 0..MaxCoord}
Payloads == 1..MaxPayload
SignalKinds == {"offer", "answer", "ice-candidate"}

\* ---- numbers: binary floating point, round to nearest, ties to even ----
\* A JavaScript number is an IEEE 754 double: a significand of 53 bits and a
\* power of two.  The model keeps the format and the rounding of every
\* operation and shortens the significand to Precision bits.  A number is
\* <<m, e>>, standing for m * 2^e, with m = 0 or 2^(Precision-1) <= |m| <
\* 2^Precision.
RECURSIVE Pow2(_)
Pow2(k) == IF k = 0 THEN 1 ELSE 2 * Pow2(k - 1)

Abs(n) == IF n < 0 THEN 0 - n ELSE n
Sgn(n) == IF n < 0 THEN 0 - 1 ELSE 1
FZero == <<0, 0>>

\* the number nearest to (n / d) * 2^e, for n > 0 and d > 0
RECURSIVE RoundPos(_, _, _)
RoundPos(n, d, e) ==
  IF n >= d * Pow2(Precision) THEN RoundPos(n, 2 * d, e + 1)
  ELSE IF n < d * Pow2(Precision - 1) THEN RoundPos(2 * n, d, e - 1)
  ELSE LET q == n \div d
           r == n % d
           up == 2 * r > d \/ (2 * r = d /\ q % 2 = 1)
       IN  IF ~up THEN <<q, e>>
           ELSE IF q + 1 = Pow2(Precision) THEN <<Pow2(Precision - 1), e + 1>>
           ELSE <<q + 1, e>>

Round(n, d, e) ==
  IF n = 0 THEN FZero
  ELSE LET f == RoundPos(Abs(n), d, e) IN <<Sgn(n) * f[1], f[2]>>

Num(n) == Round(n, 1, 0)        \* the literal n
Ratio(n, d) == Round(n, d, 0)   \* a decimal literal, as 1/10 for 0.1

FNeg(a) == <<0 - a[1], a[2]>>

FAdd(a, b) ==
  IF a[1] = 0 THEN b
  ELSE IF b[1] = 0 THEN a
  ELSE IF a[2] - b[2] > Precision + 1 THEN a
  ELSE IF b[2] - a[2] > Precision + 1 THEN b
  ELSE LET e == IF a[2] < b[2] THEN a[2] ELSE b[2]
       IN  Round(a[1] * Pow2(a[2] - e) + b[1] * Pow2(b[2] - e), 1, e)

FSub(a, b) == FAdd(a, FNeg(b))
FMul(a, b) == Round(a[1] * b[1], 1, a[2] + b[2])
FDiv(a, b) == Round(Sgn(b[1]) * a[1], Abs(b[1]), a[2] - b[2])

\* a <= b
FLe(a, b) == FSub(b, a)[1] >= 0
FMax(a, b) == IF FLe(a, b) THEN b ELSE a
FMin(a, b) == IF FLe(a, b) THEN a ELSE b

\* the largest r in lo..hi with r * r <= n (lo * lo <= n)
RECURSIVE ISqrt(_, _, _)
ISqrt(n, lo, hi) ==
  IF lo = hi THEN lo
  ELSE LET mid == (lo + hi + 1) \div 2
       IN  IF mid * mid <= n THEN ISqrt(n, mid, hi) ELSE ISqrt(n, lo, mid - 1)

\* Math.sqrt(a) for a >= 0
FSqrt(a) ==
  IF a[1] = 0 THEN FZero
  ELSE LET k0 == Precision + 1
           k == IF (a[2] - k0) % 2 = 0 THEN k0 ELSE k0 + 1
           n == a[1] * Pow2(k)
           r == ISqrt(n, Pow2(Precision - 1), Pow2(Precision + 1))
           e == (a[2] - k) \div 2
       IN  IF r * r = n THEN Round(r, 1, e) ELSE Round(2 * r + 1, 2, e)

\* the coordinates of a participant record, as numbers
World(position) == <<Num(position[1]), Num(position[2]), Num(position[3])>>

\* Math.sqrt(x * x + y * y + z * z)
Distance(w) == FSqrt(FAdd(FAdd(FMul(w[1], w[1]), FMul(w[2], w[2])), FMul(w[3], w[3])))

\* Math.max(0.1, Math.min(1, 1 / (1 + distance * 0.1)))
VolumeMultiplier(distance) ==
  FMax(Ratio(1, 10),
       FMin(Num(1), FDiv(Num(1), FAdd(Num(1), FMul(distance, Ratio(1, 10))))))

\* a gain law without the floor
GainValueNoFloor(distance) ==
  FMul(Ratio(1, 2),
       FMin(Num(1), FDiv(Num(1), FAdd(Num(1), FMul(distance, Ratio(1, 10))))))

\* a gain law that grows with the distance
GainValueRising(distance) ==
  FMul(Ratio(1, 2), FMax(Ratio(1, 10), FMin(Num(1), FMul(distance, Ratio(1, 10)))))

\* gainNode.gain.value = 0.5 * volumeMultiplier
GainValue(distance) == FMul(Ratio(1, 2), VolumeMultiplier(distance))

\* gainNode.gain.value = 0.5 of addAudioSource
DefaultVolume == Ratio(1, 2)

CanvasToWorldPosition(canvasX, canvasY, canvasWidth, canvasHeight) ==
  LET x == FSub(FMul(FDiv(canvasX, canvasWidth), Num(2)), Num(1))
      z == FSub(FMul(FDiv(canvasY, canvasHeight), Num(2)), Num(1))
      y == FZero
  IN  <<FMul(x, Num(10)), y, FMul(z, Num(10))>>

\* a conversion that takes the height for the width
WorldToCanvasPositionSwapped(worldX, worldY, worldZ, canvasWidth, canvasHeight) ==
  LET x == FDiv(worldX, Num(10))
      z == FDiv(worldZ, Num(10))
  IN  <<FDiv(FMul(FAdd(x, Num(1)), canvasHeight), Num(2)),
        FDiv(FMul(FAdd(z, Num(1)), canvasWidth), Num(2))>>

WorldToCanvasPosition(worldX, worldY, worldZ, canvasWidth, canvasHeight) ==
  LET x == FDiv(worldX, Num(10))
      z == FDiv(worldZ, Num(10))
  IN  <<FDiv(FMul(FAdd(x, Num(1)), canvasWidth), Num(2)),
        FDiv(FMul(FAdd(z, Num(1)), canvasHeight), Num(2))>>

VARIABLES
  status,    \* socket lifecycle: "new" (id not issued yet), "live", "dead"
  roomId,    \* socket.roomId of every socket (NoRoom = undefined)
  adapter,   \* socket.io rooms: name -> set of sockets in that room
  rooms,     \* const rooms = new Map(): roomId -> (socket.id -> user record)
  joined,    \* history: the rooms each connection has sent join-room for
  last,      \* the event handled last
  emits,     \* bag of the messages the last handler emitted
  njoins,    \* number of join-room events handled so far
  nupdates,  \* number of position-update / toggle-mute events handled so far
  updated,   \* history (snapshot specification): the position and muted value each
             \* socket's updates stored last
  wire,      \* per socket: signaling messages sent by the client, not yet handled
  inbox,     \* per socket: signaling messages delivered to the client, in order
  nsent,     \* number of signaling messages sent by clients so far
  page,             \* per connection, the room page behind it: "none", "open",
                    \* "dropped" (transport lost, page still shown), "gone" (navigated away),
                    \* "moved" (the page went on under the socket of its reconnect)
  localStream,      \* WebRTCManager.localStream: "none", "pending", "ready", "stopped",
                    \* "failed" (getUserMedia rejected)
  peerConnections,  \* WebRTCManager.peerConnections: peer id -> link
  participants,     \* RoomManager.participants: peer id -> position
  mutedOf,          \* RoomManager.participants: peer id -> muted
  isMuted,          \* RoomManager.isMuted, per page
  audioElements,    \* the audio-<peer id> elements in the document
  audioSources,     \* SpatialAudioManager.audioSources: peer id -> position
  recvq,            \* per connection: server messages received, not yet dispatched
  made,             \* history: links created so far, per page and peer
  closed,           \* history: the links the page has closed, as <<peer, number>>
  offers,           \* history: offers emitted so far, per page and target
  answers,          \* history: answers emitted so far, per page and target
  failed,           \* history: peers whose negotiation failed, per page
  cleanup,          \* history: what leaveRoom did before it navigated away
  snapshot,         \* history: socket ids of the existing-users sent to the page
  heard,            \* history: last user-position-update received, per page and peer
  ncands,           \* number of ICE candidates gathered so far
  isEnabled,        \* SpatialAudioManager.isEnabled, per page
  gainNode,         \* gainNode.gain.value of the audio sources: peer id -> number
  played,           \* history: the audio elements that have fired canplay, per page
  ntoggles,         \* number of clicks on the spatial toggle so far
  loading,          \* per page: peers whose audio element was created and whose canplay
                    \* listener has not run yet (in the document or taken out of it)
  mapIn,            \* arguments of the coordinate conversions and of the gain law
  mapOut,           \* their results, once computed
  roomParticipants, \* the room_participants table: a bag of rows <<room_id, user_id>>
  joinReq           \* the POST /:roomId/join requests: where each is, and its answer

svars == <<status, roomId, adapter, rooms, joined, last, emits, njoins, nupdates>>
hvars == <<updated>>
tvars == <<wire, inbox, nsent>>
cvars == <<page, localStream, peerConnections, participants, mutedOf, isMuted, audioElements,
           audioSources, recvq, made, closed, offers, answers, failed, cleanup,
           snapshot, heard, ncands>>
avars == <<isEnabled, gainNode, played, ntoggles, loading>>
mvars == <<mapIn, mapOut>>
dvars == <<roomParticipants, joinReq>>
vars == <<status, roomId, adapter, rooms, joined, last, emits, njoins, nupdates,
          updated, wire, inbox, nsent, page, localStream, peerConnections, participants,
          mutedOf, isMuted,
          audioElements, audioSources, recvq, made, closed, offers, answers,
          failed, cleanup, snapshot, heard, ncands, isEnabled, gainNode, played,
          ntoggles, loading, mapIn, mapOut, roomParticipants, joinReq>>

Live == {c \in Conns : status[c] = "live"}

\* ---- messages ----
NoUsers == {}
Event(op, c, name, pos, muted, payload) ==
  [op |-> op, sock |-> c, name |-> name, position |-> pos, muted |-> muted,
   payload |-> payload]

Msg(to, ev, from, pos, muted, payload, users) ==
  [to |-> to, ev |-> ev, from |-> from, position |-> pos, muted |-> muted,
   payload |-> payload, users |-> users]

\* socket.to(name).emit(ev, ..): one message per socket of the socket.io room
\* `name`, the emitting socket excepted.
ToTargets(ad, c, name) == IF name \in Names THEN ad[name] \ {c} ELSE {}

Broadcast(ad, c, name, ev, pos, muted, payload) ==
  SetToBag({Msg(t, ev, c, pos, muted, payload, NoUsers) : t \in ToTargets(ad, c, name)})

\* socket.emit(ev, ..): one message to the socket itself.
EmitSelf(c, ev, users) ==
  SetToBag({Msg(c, ev, c, Origin, FALSE, 0, users)})

\* ---- registry helpers ----
HasRoom(r) == r \in DOMAIN rooms
RoomUsers(r) == IF HasRoom(r) THEN DOMAIN rooms[r] ELSE {}
NewUser == [position |-> Origin, muted |-> FALSE]

\* rooms.get(r).set(id, user), after the room was created when missing
SetUser(r, c, user) ==
  LET old == IF HasRoom(r) THEN rooms[r] ELSE <<>>
      new == [k \in (DOMAIN old) \cup {c} |-> IF k = c THEN user ELSE old[k]]
  IN  [k \in (DOMAIN rooms) \cup {r} |-> IF k = r THEN new ELSE rooms[k]]

\* a removal that keeps the room in the map when its last record goes
DeleteUserKeepsRoom(r, c) ==
  [rooms EXCEPT ![r] = [k \in (DOMAIN rooms[r]) \ {c} |-> rooms[r][k]]]

\* roomUsers.delete(id), then rooms.delete(r) when the room became empty
DeleteUser(r, c) ==
  LET left == [k \in (DOMAIN rooms[r]) \ {c} |-> rooms[r][k]]
  IN  IF DOMAIN left = {}
        THEN [k \in (DOMAIN rooms) \ {r} |-> rooms[k]]
        ELSE [rooms EXCEPT ![r] = left]

\* the existingUsers array built by join-room (as a set: order is not modelled)
ExistingUsers(rms, r, c) ==
  {[socketId |-> k, position |-> rms[r][k].position, muted |-> rms[r][k].muted] :
     k \in (DOMAIN rms[r]) \ {c}}

\* ---- initial state ----
NoCall == [op |-> "none"]
\* a request that has not arrived yet
NoRequest == [pc |-> "none", roomId |-> 0, userId |-> 0, status |-> 0]
InitProgram ==
  /\ status = [c \in Conns |-> "new"]
  /\ roomId = [c \in Conns |-> NoRoom]
  /\ adapter = [n \in Names |-> {}]
  /\ rooms = <<>>
  /\ joined = [c \in Conns |-> {}]
  /\ last = Event("init", 0, 0, Origin, FALSE, 0)
  /\ emits = EmptyBag
  /\ njoins = 0
  /\ nupdates = 0
  /\ updated = [c \in Conns |-> NewUser]
  /\ wire = [c \in Conns |-> <<>>]
  /\ inbox = [c \in Conns |-> <<>>]
  /\ nsent = 0
  /\ page = [c \in Conns |-> "none"]
  /\ localStream = [c \in Conns |-> "none"]
  /\ peerConnections = [c \in Conns |-> <<>>]
  /\ participants = [c \in Conns |-> <<>>]
  /\ mutedOf = [c \in Conns |-> <<>>]
  /\ isMuted = [c \in Conns |-> FALSE]
  /\ audioElements = [c \in Conns |-> {}]
  /\ audioSources = [c \in Conns |-> <<>>]
  /\ recvq = [c \in Conns |-> <<>>]
  /\ made = [c \in Conns |-> [p \in Conns |-> 0]]
  /\ closed = [c \in Conns |-> {}]
  /\ offers = [c \in Conns |-> [p \in Conns |-> 0]]
  /\ answers = [c \in Conns |-> [p \in Conns |-> 0]]
  /\ failed = [c \in Conns |-> {}]
  /\ cleanup = [c \in Conns |-> {}]
  /\ snapshot = [c \in Conns |-> {}]
  /\ heard = [c \in Conns |-> <<>>]
  /\ ncands = 0
  /\ isEnabled = [c \in Conns |-> TRUE]
  /\ gainNode = [c \in Conns |-> <<>>]
  /\ played = [c \in Conns |-> {}]
  /\ ntoggles = 0
  /\ loading = [c \in Conns |-> {}]
  /\ roomParticipants = EmptyBag
  /\ joinReq = [q \in 1..MaxRequests |-> NoRequest]

Init ==
  /\ InitProgram
  /\ mapIn = NoCall
  /\ mapOut = NoCall

\* ---- handlers ----
\* io.on('connection'): a socket with a fresh id; socket.io joins it to the
\* room named by its id.  Ids are issued in increasing order.
Connection(c) ==
  /\ status[c] = "new"
  /\ \A d \in Conns : d < c => status[d] # "new"
  /\ status' = [status EXCEPT ![c] = "live"]
  /\ adapter' = [adapter EXCEPT ![c] = @ \cup {c}]
  /\ last' = Event("connection", c, 0, Origin, FALSE, 0)
  /\ emits' = EmptyBag
  /\ UNCHANGED <<roomId, rooms, joined, njoins, nupdates>>

\* a join-room handler that starts the room afresh on every join
JoinRoomResetsRoom(c, r) ==
  /\ status[c] = "live"
  /\ adapter' = [adapter EXCEPT ![r] = @ \cup {c}]
  /\ roomId' = [roomId EXCEPT ![c] = r]
  /\ rooms' = [k \in (DOMAIN rooms) \cup {r} |-> IF k = r THEN c :> NewUser ELSE rooms[k]]
  /\ emits' = Broadcast(adapter', c, r, "user-joined", Origin, FALSE, 0)
                (+) EmitSelf(c, "existing-users", ExistingUsers(rooms', r, c))
  /\ joined' = [joined EXCEPT ![c] = @ \cup {r}]
  /\ last' = Event("join-room", c, r, Origin, FALSE, 0)
  /\ njoins' = njoins + 1
  /\ UNCHANGED <<status, nupdates>>

\* socket.on('join-room')
JoinRoom(c, r) ==
  /\ status[c] = "live"
  /\ adapter' = [adapter EXCEPT ![r] = @ \cup {c}]
  /\ roomId' = [roomId EXCEPT ![c] = r]
  /\ rooms' = SetUser(r, c, NewUser)
  /\ emits' = Broadcast(adapter', c, r, "user-joined", Origin, FALSE, 0)
                (+) EmitSelf(c, "existing-users", ExistingUsers(rooms', r, c))
  /\ joined' = [joined EXCEPT ![c] = @ \cup {r}]
  /\ last' = Event("join-room", c, r, Origin, FALSE, 0)
  /\ njoins' = njoins + 1
  /\ UNCHANGED <<status, nupdates>>

\* a relay that copies the sender identity from the client's data
SignalTrustsClient(c, kind, target, payload, claimed) ==
  /\ status[c] = "live"
  /\ emits' = Broadcast(adapter, claimed, target, kind, Origin, FALSE, payload)
  /\ last' = Event(kind, c, target, Origin, FALSE, payload)
  /\ UNCHANGED <<status, roomId, adapter, rooms, joined, njoins, nupdates>>

\* a relay that delivers only to a target whose socket.roomId is the sender's
SignalSameRoom(c, kind, target, payload, claimed) ==
  /\ status[c] = "live"
  /\ emits' = IF target \in Conns /\ roomId[c] # NoRoom /\ roomId[target] = roomId[c]
                THEN Broadcast(adapter, c, target, kind, Origin, FALSE, payload)
                ELSE EmptyBag
  /\ last' = Event(kind, c, target, Origin, FALSE, payload)
  /\ UNCHANGED <<status, roomId, adapter, rooms, joined, njoins, nupdates>>

\* a relay that takes the sender's record out of its room
SignalDropsSender(c, kind, target, payload, claimed) ==
  /\ status[c] = "live"
  /\ emits' = Broadcast(adapter, c, target, kind, Origin, FALSE, payload)
  /\ last' = Event(kind, c, target, Origin, FALSE, payload)
  /\ rooms' = IF roomId[c] # NoRoom /\ HasRoom(roomId[c]) /\ c \in DOMAIN rooms[roomId[c]]
               THEN DeleteUser(roomId[c], c) ELSE rooms
  /\ UNCHANGED <<status, roomId, adapter, joined, njoins, nupdates>>

\* socket.on('offer'), socket.on('answer'), socket.on('ice-candidate');
\* `claimed` is a sender identity the client may have put into data.
Signal(c, kind, target, payload, claimed) ==
  /\ status[c] = "live"
  /\ emits' = Broadcast(adapter, c, target, kind, Origin, FALSE, payload)
  /\ last' = Event(kind, c, target, Origin, FALSE, payload)
  /\ UNCHANGED <<status, roomId, adapter, rooms, joined, njoins, nupdates>>

InRoom(c) == roomId[c] # NoRoom /\ HasRoom(roomId[c]) /\ c \in DOMAIN rooms[roomId[c]]

\* a position-update handler that stores the position without looking the
\* socket up in its room first
PositionUpdateUnchecked(c, p) ==
  /\ status[c] = "live"
  /\ rooms' = SetUser(roomId[c], c, [position |-> p, muted |-> FALSE])
  /\ emits' = Broadcast(adapter, c, roomId[c], "user-position-update", p, FALSE, 0)
  /\ last' = Event("position-update", c, roomId[c], p, FALSE, 0)
  /\ nupdates' = nupdates + 1
  /\ UNCHANGED <<status, roomId, adapter, joined, njoins>>

\* socket.on('position-update')
PositionUpdate(c, p) ==
  /\ status[c] = "live"
  /\ IF InRoom(c)
       THEN /\ rooms' = [rooms EXCEPT ![roomId[c]][c].position = p]
            /\ emits' = Broadcast(adapter, c, roomId[c], "user-position-update", p, FALSE, 0)
       ELSE /\ rooms' = rooms
            /\ emits' = EmptyBag
  /\ last' = Event("position-update", c, roomId[c], p, FALSE, 0)
  /\ nupdates' = nupdates + 1
  /\ UNCHANGED <<status, roomId, adapter, joined, njoins>>

\* socket.on('toggle-mute')
ToggleMute(c, m) ==
  /\ status[c] = "live"
  /\ IF InRoom(c)
       THEN /\ rooms' = [rooms EXCEPT ![roomId[c]][c].muted = m]
            /\ emits' = Broadcast(adapter, c, roomId[c], "user-mute-update", Origin, m, 0)
       ELSE /\ rooms' = rooms
            /\ emits' = EmptyBag
  /\ last' = Event("toggle-mute", c, roomId[c], Origin, m, 0)
  /\ nupdates' = nupdates + 1
  /\ UNCHANGED <<status, roomId, adapter, joined, njoins>>

\* socket.on('disconnect'): socket.io has already taken the socket out of
\* every socket.io room when the handler runs.
Disconnect(c) ==
  /\ status[c] = "live"
  /\ status' = [status EXCEPT ![c] = "dead"]
  /\ adapter' = [n \in Names |-> adapter[n] \ {c}]
  /\ joined' = joined
  /\ IF roomId[c] # NoRoom /\ HasRoom(roomId[c])
       THEN /\ rooms' = DeleteUser(roomId[c], c)
            /\ emits' = IF roomId[c] \in DOMAIN rooms'
                          THEN Broadcast(adapter', c, roomId[c], "user-left", Origin, FALSE, 0)
                          ELSE EmptyBag
       ELSE /\ rooms' = rooms
            /\ emits' = EmptyBag
  /\ last' = Event("disconnect", c, roomId[c], Origin, FALSE, 0)
  /\ UNCHANGED <<roomId, njoins, nupdates>>

\* A client can name a room after any string it knows: an ordinary room id
\* or the id of a socket that has been issued (ids are random until then).
\* Socket ids are interchangeable, so the id of the first socket stands for
\* "a room named after a socket id".
Known(r) == r = 1 /\ status[r] # "new"

\* ---- the registry specification: join, update, disconnect ----
Next ==
  \/ \E c \in 1..RegConns : Connection(c) /\ UNCHANGED <<tvars, cvars, avars, mvars, hvars, dvars>>
  \/ \E c \in Conns, r \in RoomIds :
       njoins < MaxJoins /\ JoinRoom(c, r) /\ UNCHANGED <<tvars, cvars, avars, mvars, hvars, dvars>>
  \/ \E c \in Conns, r \in Conns :
       njoins < MaxJoins /\ Known(r) /\ JoinRoom(c, r) /\ UNCHANGED <<tvars, cvars, avars, mvars, hvars, dvars>>
  \/ \E c \in Conns, p \in Positions :
       nupdates < MaxUpdates /\ PositionUpdate(c, p) /\ UNCHANGED <<tvars, cvars, avars, mvars, hvars, dvars>>
  \/ \E c \in Conns, m \in BOOLEAN :
       nupdates < MaxUpdates /\ ToggleMute(c, m) /\ UNCHANGED <<tvars, cvars, avars, mvars, hvars, dvars>>
  \/ \E c \in Conns : Disconnect(c) /\ UNCHANGED <<tvars, cvars, avars, mvars, hvars, dvars>>

Spec == Init /\ [][Next]_vars

\* ---- the relay specification: join, disconnect and the three relay handlers ----
\* A signaling message may name any string as its target: a room id, or the
\* id of a socket that is connected, gone, or not connected yet.  The client
\* may also put a sender identity of its choice into the message.  A relay
\* handler changes nothing but last and emits, so the states reached by
\* several signaling messages in a row are the states reached by the last
\* of them alone: a signaling message is taken after another kind of event.
NextRelay ==
  \/ \E c \in 1..RelayConns : Connection(c) /\ UNCHANGED <<tvars, cvars, avars, mvars, hvars, dvars>>
  \/ \E c \in Conns, r \in RoomIds :
       njoins < RelayJoins /\ JoinRoom(c, r) /\ UNCHANGED <<tvars, cvars, avars, mvars, hvars, dvars>>
  \/ \E c \in Conns, r \in Conns :
       njoins < RelayJoins /\ Known(r) /\ JoinRoom(c, r) /\ UNCHANGED <<tvars, cvars, avars, mvars, hvars, dvars>>
  \/ \E c \in Conns, k \in SignalKinds, t \in RoomIds \cup (1..RelayConns),
        p \in Payloads :
       /\ last.op \notin SignalKinds
       /\ \E a \in {c, t} \cap Conns : Signal(c, k, t, p, a)
       /\ UNCHANGED <<tvars, cvars, avars, mvars, hvars, dvars>>
  \/ \E c \in Conns : Disconnect(c) /\ UNCHANGED <<tvars, cvars, avars, mvars, hvars, dvars>>

SpecRelay == Init /\ [][NextRelay]_vars

\* ---- the ordering specification: signaling messages in flight ----
\* The transport keeps the order of one socket's messages in both directions.
\* A client tags every message it sends with the next sequence number; the
\* kinds follow each other as in a negotiation: offer, answer, candidate.
KindOf(n) == IF n % 3 = 1 THEN "offer" ELSE IF n % 3 = 2 THEN "answer" ELSE "ice-candidate"

SeqOf(S) ==
  LET RECURSIVE Build(_)
      Build(T) == IF T = {} THEN <<>>
                  ELSE LET d == CHOOSE x \in T : TRUE IN <<d>> \o Build(T \ {d})
  IN  Build(S)

\* a relay that puts a message in front of what the socket has outstanding
DeliverInFront(box, bag) ==
  [c \in Conns |->
     SeqOf({[from |-> d.from, ev |-> d.ev, payload |-> d.payload] :
              d \in {e \in BagToSet(bag) : e.to = c}}) \o box[c]]

\* what the emit calls of one handler hand to the sockets' outgoing streams
Deliver(box, bag) ==
  [c \in Conns |->
     box[c] \o SeqOf({[from |-> d.from, ev |-> d.ev, payload |-> d.payload] :
                        d \in {e \in BagToSet(bag) : e.to = c}})]

\* socket.emit('offer' | 'answer' | 'ice-candidate', {target, ..}) on a client
ClientEmit(c, target) ==
  /\ status[c] = "live"
  /\ nsent < MaxSent
  /\ nsent' = nsent + 1
  /\ wire' = [wire EXCEPT ![c] = Append(@, [kind |-> KindOf(nsent + 1), target |-> target,
                                             payload |-> nsent + 1])]
  /\ UNCHANGED <<svars, inbox, cvars, avars, mvars, hvars, dvars>>

\* the server takes the next message of socket c and runs its handler
ServerRecv(c) ==
  /\ wire[c] # <<>>
  /\ LET m == Head(wire[c]) IN Signal(c, m.kind, m.target, m.payload, c)
  /\ wire' = [wire EXCEPT ![c] = Tail(@)]
  /\ inbox' = Deliver(inbox, emits')
  /\ nsent' = nsent
  /\ UNCHANGED <<cvars, avars, mvars, hvars, dvars>>

NextOrder ==
  \/ \E c \in 1..OrderConns : Connection(c) /\ UNCHANGED <<tvars, cvars, avars, mvars, hvars, dvars>>
  \/ \E c \in Conns, t \in 1..OrderConns : ClientEmit(c, t)
  \/ \E c \in Conns : ServerRecv(c)
  \/ \E c \in Conns :
       Disconnect(c) /\ wire' = [wire EXCEPT ![c] = <<>>] /\ UNCHANGED <<inbox, nsent, cvars, avars, mvars, hvars, dvars>>

SpecOrder == Init /\ [][NextOrder]_vars

\* ---- the snapshot specification: join, update, signaling, disconnect, with
\* the history of the values the handlers stored ----
NextSnapshot ==
  \/ \E c \in 1..RegConns : Connection(c) /\ UNCHANGED <<tvars, cvars, avars, mvars, hvars, dvars>>
  \/ \E c \in Conns, r \in RoomIds :
       njoins < MaxJoins /\ JoinRoom(c, r) /\ UNCHANGED <<tvars, cvars, avars, mvars, hvars, dvars>>
  \/ \E c \in Conns, p \in Positions :
       /\ nupdates < MaxUpdates
       /\ PositionUpdate(c, p)
       /\ updated' = IF InRoom(c) THEN [updated EXCEPT ![c].position = p] ELSE updated
       /\ UNCHANGED <<tvars, cvars, avars, mvars, dvars>>
  \/ \E c \in Conns, m \in BOOLEAN :
       /\ nupdates < MaxUpdates
       /\ ToggleMute(c, m)
       /\ updated' = IF InRoom(c) THEN [updated EXCEPT ![c].muted = m] ELSE updated
       /\ UNCHANGED <<tvars, cvars, avars, mvars, dvars>>
  \/ \E c \in Conns, k \in SignalKinds :
       /\ last.op \notin SignalKinds
       /\ Signal(c, k, (c % RegConns) + 1, 0, c)
       /\ UNCHANGED <<tvars, cvars, avars, mvars, hvars, dvars>>
  \/ \E c \in Conns : Disconnect(c) /\ UNCHANGED <<tvars, cvars, avars, mvars, hvars, dvars>>

SpecSnapshot == Init /\ [][NextSnapshot]_vars

\* ---- the room page: RoomManager, WebRTCManager, SpatialAudioManager ----
\* One page stands behind every connection: it opens its socket once and
\* sends join-room once, for the room of its URL.  What a page emits is
\* handled by the server in the same step (the server is the only reader of
\* a socket and a page never waits for it); what the server emits to a page
\* waits in recvq until the page dispatches it.  An async handler and the
\* browser calls it awaits are one step whose outcome (ok) the browser decides.
WebRTCEvents == {"offer", "answer", "ice-candidate", "user-joined", "existing-users",
                 "user-left"}
Listening(c) == localStream[c] = "ready"
\* new RTCPeerConnection with the tracks of this.localStream added
NewLink(c) == [sig |-> "new", cands |-> 0, tracks |-> localStream[c] = "ready"]
MapSet(f, k, v) == [x \in (DOMAIN f) \cup {k} |-> IF x = k THEN v ELSE f[x]]
MapDelete(f, k) == [x \in (DOMAIN f) \ {k} |-> f[x]]
Incr(f, c, p) == [f EXCEPT ![c][p] = @ + 1]
Enqueue(q, bag) == [c \in Conns |-> q[c] \o SeqOf({e \in BagToSet(bag) : e.to = c})]
Rest(c) == [recvq EXCEPT ![c] = Tail(@)]
Dispatch(c, ev) == page[c] = "open" /\ recvq[c] # <<>> /\ Head(recvq[c]).ev = ev

\* this.socket.emit(kind, {target, ..}) and the relay handler that takes it
EmitSignal(c, kind, target, q) ==
  /\ Signal(c, kind, target, 1, c)
  /\ recvq' = Enqueue(q, emits')

\* initializeSocket up to its await: io() connects, the position and mute
\* listeners are registered, getUserMedia is started
InitializeSocket(c) ==
  /\ page[c] = "none"
  /\ Connection(c)
  /\ page' = [page EXCEPT ![c] = "open"]
  /\ localStream' = [localStream EXCEPT ![c] = "pending"]
  /\ UNCHANGED <<tvars, avars, mvars, hvars, dvars, peerConnections, participants, mutedOf, isMuted, audioElements, audioSources,
                 recvq, made, closed, offers, answers, failed, cleanup, snapshot,
                 heard, ncands>>

\* socket.on('connect'): the page emits join-room for the room r of its URL
OnConnect(c, r) ==
  /\ page[c] = "open"
  /\ joined[c] = {}
  /\ JoinRoom(c, r)
  /\ recvq' = Enqueue(recvq, emits')
  /\ snapshot' = [snapshot EXCEPT ![c] = {u.socketId : u \in ExistingUsers(rooms', r, c)}]
  /\ UNCHANGED <<tvars, avars, mvars, hvars, dvars, page, localStream, peerConnections, participants, mutedOf, isMuted,
                 audioElements, audioSources, made, closed, offers, answers, failed,
                 cleanup, heard, ncands>>

\* getUserMedia resolves: localStream is set and setupSocketListeners runs
GetUserMedia(c) ==
  /\ page[c] = "open"
  /\ localStream[c] = "pending"
  /\ localStream' = [localStream EXCEPT ![c] = "ready"]
  /\ UNCHANGED <<svars, tvars, avars, mvars, hvars, dvars, page, peerConnections, participants, mutedOf, isMuted, audioElements,
                 audioSources, recvq, made, closed, offers, answers, failed, cleanup,
                 snapshot, heard, ncands>>

\* getUserMedia rejects: WebRTCManager.initialize rethrows, initializeSocket
\* rejects and the catch block of RoomManager.initialize shows a message.
\* The socket stays as it is and setupSocketListeners never runs.
GetUserMediaRejects(c) ==
  /\ page[c] = "open"
  /\ localStream[c] = "pending"
  /\ localStream' = [localStream EXCEPT ![c] = "failed"]
  /\ UNCHANGED <<svars, tvars, avars, mvars, hvars, dvars, page, peerConnections, participants, mutedOf,
                 isMuted, audioElements, audioSources, recvq, made, closed, offers, answers,
                 failed, cleanup, snapshot, heard, ncands>>

\* an event arrives for which the page has no listener yet: it is discarded
DropEvent(c) ==
  /\ page[c] = "open"
  /\ recvq[c] # <<>>
  /\ Head(recvq[c]).ev \in WebRTCEvents
  /\ ~Listening(c)
  /\ recvq' = Rest(c)
  /\ UNCHANGED <<svars, tvars, avars, mvars, hvars, dvars, page, localStream, peerConnections, participants, mutedOf, isMuted,
                 audioElements, audioSources, made, closed, offers, answers, failed,
                 cleanup, snapshot, heard, ncands>>

\* a user-joined listener that makes the link and leaves the offer out
OnUserJoinedSilent(c, ok) ==
  /\ Dispatch(c, "user-joined")
  /\ Listening(c)
  /\ LET P == Head(recvq[c]).from
     IN  /\ participants' = [participants EXCEPT ![c] = MapSet(@, P, Head(recvq[c]).position)]
         /\ mutedOf' = [mutedOf EXCEPT ![c] = MapSet(@, P, FALSE)]
         /\ isMuted' = isMuted
         /\ made' = Incr(made, c, P)
         /\ peerConnections' = [peerConnections EXCEPT ![c] = MapSet(@, P, NewLink(c))]
         /\ recvq' = Rest(c)
         /\ UNCHANGED <<svars, offers, failed>>
  /\ UNCHANGED <<tvars, avars, mvars, hvars, dvars, page, localStream, audioElements, audioSources, closed, answers,
                 cleanup, snapshot, heard, ncands>>

\* socket.on('user-joined'): participant record, createPeerConnection, sendOffer
OnUserJoined(c, ok) ==
  /\ Dispatch(c, "user-joined")
  /\ Listening(c)
  /\ LET P == Head(recvq[c]).from
     IN  /\ participants' = [participants EXCEPT ![c] = MapSet(@, P, Head(recvq[c]).position)]
         /\ mutedOf' = [mutedOf EXCEPT ![c] = MapSet(@, P, FALSE)]
         /\ isMuted' = isMuted
         /\ made' = Incr(made, c, P)
         /\ IF ok
              THEN /\ peerConnections' = [peerConnections EXCEPT ![c] =
                        MapSet(@, P, [NewLink(c) EXCEPT !.sig = "have-local-offer"])]
                   /\ offers' = Incr(offers, c, P)
                   /\ EmitSignal(c, "offer", P, Rest(c))
                   /\ failed' = failed
              ELSE /\ peerConnections' = [peerConnections EXCEPT ![c] = MapSet(@, P, NewLink(c))]
                   /\ failed' = [failed EXCEPT ![c] = @ \cup {P}]
                   /\ recvq' = Rest(c)
                   /\ UNCHANGED <<svars, offers>>
  /\ UNCHANGED <<tvars, avars, mvars, hvars, dvars, page, localStream, audioElements, audioSources, closed,
                 answers, cleanup, snapshot, heard, ncands>>

\* socket.on('existing-users'): participant record and createPeerConnection
\* for every listed user, no offer
OnExistingUsers(c) ==
  /\ Dispatch(c, "existing-users")
  /\ Listening(c)
  /\ LET users == Head(recvq[c]).users
         ids == {u.socketId : u \in users}
         pos(k) == (CHOOSE u \in users : u.socketId = k).position
         mut(k) == (CHOOSE u \in users : u.socketId = k).muted
     IN  /\ participants' = [participants EXCEPT ![c] =
              [k \in (DOMAIN @) \cup ids |-> IF k \in ids THEN pos(k) ELSE @[k]]]
         /\ mutedOf' = [mutedOf EXCEPT ![c] =
              [k \in (DOMAIN @) \cup ids |-> IF k \in ids THEN mut(k) ELSE @[k]]]
         /\ isMuted' = isMuted
         /\ peerConnections' = [peerConnections EXCEPT ![c] =
              [k \in (DOMAIN @) \cup ids |-> IF k \in ids THEN NewLink(c) ELSE @[k]]]
         /\ made' = [made EXCEPT ![c] =
              [p \in Conns |-> IF p \in ids THEN @[p] + 1 ELSE @[p]]]
  /\ recvq' = Rest(c)
  /\ UNCHANGED <<svars, tvars, avars, mvars, hvars, dvars, page, localStream, audioElements, audioSources, closed,
                 offers, answers, failed, cleanup, snapshot, heard, ncands>>

\* socket.on('user-left'): removePeerConnection, then removeParticipant with
\* removeAudioSource
OnUserLeft(c) ==
  /\ Dispatch(c, "user-left")
  /\ Listening(c)
  /\ LET P == Head(recvq[c]).from
     IN  /\ closed' = [closed EXCEPT ![c] =
              IF P \in DOMAIN peerConnections[c] THEN @ \cup {<<P, made[c][P]>>} ELSE @]
         /\ peerConnections' = [peerConnections EXCEPT ![c] = MapDelete(@, P)]
         /\ audioElements' = [audioElements EXCEPT ![c] = @ \ {P}]
         /\ participants' = [participants EXCEPT ![c] = MapDelete(@, P)]
         /\ mutedOf' = [mutedOf EXCEPT ![c] = MapDelete(@, P)]
         /\ isMuted' = isMuted
         /\ audioSources' = [audioSources EXCEPT ![c] = MapDelete(@, P)]
         /\ gainNode' = [gainNode EXCEPT ![c] = MapDelete(@, P)]
         /\ played' = [played EXCEPT ![c] = @ \ {P}]
  /\ recvq' = Rest(c)
  /\ UNCHANGED <<svars, tvars, mvars, hvars, dvars, page, localStream, made, offers, answers, failed,
                 cleanup, snapshot, heard, ncands, isEnabled, ntoggles, loading>>

\* an offer handler that makes a new link for every offer
HandleOfferFreshLink(c, ok) ==
  /\ Dispatch(c, "offer")
  /\ Listening(c)
  /\ LET P == Head(recvq[c]).from
     IN  /\ made' = Incr(made, c, P)
         /\ IF ok
              THEN /\ peerConnections' = [peerConnections EXCEPT ![c] =
                        MapSet(@, P, [NewLink(c) EXCEPT !.sig = "stable"])]
                   /\ answers' = Incr(answers, c, P)
                   /\ EmitSignal(c, "answer", P, Rest(c))
                   /\ failed' = failed
              ELSE /\ peerConnections' = [peerConnections EXCEPT ![c] = MapSet(@, P, NewLink(c))]
                   /\ failed' = [failed EXCEPT ![c] = @ \cup {P}]
                   /\ recvq' = Rest(c)
                   /\ UNCHANGED <<svars, answers>>
  /\ UNCHANGED <<tvars, avars, mvars, hvars, dvars, page, localStream, participants, mutedOf, isMuted, audioElements, audioSources,
                 closed, offers, cleanup, snapshot, heard, ncands>>

\* socket.on('offer'): handleOffer takes the link of the caller, or makes one,
\* applies the offer and emits the answer
HandleOffer(c, ok) ==
  /\ Dispatch(c, "offer")
  /\ Listening(c)
  /\ LET P == Head(recvq[c]).from
         had == P \in DOMAIN peerConnections[c]
         link == IF had THEN peerConnections[c][P] ELSE NewLink(c)
     IN  /\ made' = IF had THEN made ELSE Incr(made, c, P)
         /\ IF ok
              THEN /\ peerConnections' = [peerConnections EXCEPT ![c] =
                        MapSet(@, P, [link EXCEPT !.sig = "stable"])]
                   /\ answers' = Incr(answers, c, P)
                   /\ EmitSignal(c, "answer", P, Rest(c))
                   /\ failed' = failed
              ELSE /\ peerConnections' = [peerConnections EXCEPT ![c] = MapSet(@, P, link)]
                   /\ failed' = [failed EXCEPT ![c] = @ \cup {P}]
                   /\ recvq' = Rest(c)
                   /\ UNCHANGED <<svars, answers>>
  /\ UNCHANGED <<tvars, avars, mvars, hvars, dvars, page, localStream, participants, mutedOf, isMuted, audioElements, audioSources,
                 closed, offers, cleanup, snapshot, heard, ncands>>

\* socket.on('answer'): handleAnswer applies the answer to the link, if any
HandleAnswer(c, ok) ==
  /\ Dispatch(c, "answer")
  /\ Listening(c)
  /\ LET P == Head(recvq[c]).from
     IN  IF P \in DOMAIN peerConnections[c]
           THEN IF ok /\ peerConnections[c][P].sig = "have-local-offer"
                  THEN /\ peerConnections' = [peerConnections EXCEPT ![c][P].sig = "stable"]
                       /\ failed' = failed
                  ELSE /\ peerConnections' = peerConnections
                       /\ failed' = [failed EXCEPT ![c] = @ \cup {P}]
           ELSE UNCHANGED <<peerConnections, failed>>
  /\ recvq' = Rest(c)
  /\ UNCHANGED <<svars, tvars, avars, mvars, hvars, dvars, page, localStream, participants, mutedOf, isMuted, audioElements,
                 audioSources, made, closed, offers, answers, cleanup, snapshot, heard,
                 ncands>>

\* a candidate handler that waits for the negotiation to settle
HandleIceCandidateWhenStable(c) ==
  /\ Dispatch(c, "ice-candidate")
  /\ Listening(c)
  /\ LET P == Head(recvq[c]).from
     IN  peerConnections' =
           IF P \in DOMAIN peerConnections[c] /\ peerConnections[c][P].sig = "stable"
             THEN [peerConnections EXCEPT ![c][P].cands = @ + 1]
             ELSE peerConnections
  /\ recvq' = Rest(c)
  /\ UNCHANGED <<svars, tvars, avars, mvars, hvars, dvars, page, localStream, participants, mutedOf, isMuted, audioElements,
                 audioSources, made, closed, offers, answers, failed, cleanup, snapshot,
                 heard, ncands>>

\* socket.on('ice-candidate'): handleIceCandidate hands the candidate to the
\* link of the sender, if any
HandleIceCandidate(c) ==
  /\ Dispatch(c, "ice-candidate")
  /\ Listening(c)
  /\ LET P == Head(recvq[c]).from
     IN  peerConnections' =
           IF P \in DOMAIN peerConnections[c]
             THEN [peerConnections EXCEPT ![c][P].cands = @ + 1]
             ELSE peerConnections
  /\ recvq' = Rest(c)
  /\ UNCHANGED <<svars, tvars, avars, mvars, hvars, dvars, page, localStream, participants, mutedOf, isMuted, audioElements,
                 audioSources, made, closed, offers, answers, failed, cleanup,
                 snapshot, heard, ncands>>

\* updateAudioSourcePosition(peerId, position) on the sources src and the
\* gains of a page whose isEnabled is en: the panner position and the stored
\* position are written together, then the gain of the distance
PannerAfter(src, en, P, position) ==
  IF P \in DOMAIN src /\ en THEN [src EXCEPT ![P] = position] ELSE src

GainAfter(gains, en, P, position) ==
  IF P \in DOMAIN gains /\ en
    THEN [gains EXCEPT ![P] = GainValue(Distance(World(position)))]
    ELSE gains

\* socket.on('user-position-update'): updateParticipantPosition
UpdateParticipantPosition(c) ==
  /\ Dispatch(c, "user-position-update")
  /\ LET P == Head(recvq[c]).from
         position == Head(recvq[c]).position
     IN  /\ heard' = [heard EXCEPT ![c] = MapSet(@, P, position)]
         /\ IF P \in DOMAIN participants[c]
              THEN /\ participants' = [participants EXCEPT ![c][P] = position]
                   /\ audioSources' = [audioSources EXCEPT ![c] =
                        PannerAfter(@, isEnabled[c], P, position)]
                   /\ gainNode' = [gainNode EXCEPT ![c] =
                        GainAfter(@, isEnabled[c], P, position)]
              ELSE UNCHANGED <<participants, audioSources, gainNode>>
  /\ recvq' = Rest(c)
  /\ UNCHANGED <<svars, tvars, mvars, hvars, dvars, isEnabled, played, ntoggles, loading, page, localStream, peerConnections, audioElements, made,
                 mutedOf, isMuted,
                 closed, offers, answers, failed, cleanup, snapshot, ncands>>

\* peerConnection.onicecandidate: the link has gathered a candidate
OnIceCandidate(c, P) ==
  /\ page[c] = "open"
  /\ P \in DOMAIN peerConnections[c]
  /\ peerConnections[c][P].sig \in {"have-local-offer", "stable"}
  /\ ncands < MaxCands
  /\ ncands' = ncands + 1
  /\ EmitSignal(c, "ice-candidate", P, recvq)
  /\ UNCHANGED <<tvars, avars, mvars, hvars, dvars, page, localStream, peerConnections, participants, mutedOf, isMuted,
                 audioElements, audioSources, made, closed, offers, answers, failed,
                 cleanup, snapshot, heard>>

\* peerConnection.ontrack: handleRemoteStream puts the audio element of the
\* peer into the document
HandleRemoteStream(c, P) ==
  /\ page[c] = "open"
  /\ P \in DOMAIN peerConnections[c]
  /\ peerConnections[c][P].sig = "stable"
  /\ page[P] \in {"open", "dropped"}
  /\ c \in DOMAIN peerConnections[P]
  /\ P \notin audioElements[c]
  /\ P \notin loading[c]
  /\ P \notin DOMAIN audioSources[c]
  /\ audioElements' = [audioElements EXCEPT ![c] = @ \cup {P}]
  /\ loading' = [loading EXCEPT ![c] = @ \cup {P}]
  /\ UNCHANGED <<svars, tvars, mvars, hvars, dvars, isEnabled, gainNode, played, ntoggles, page, localStream, peerConnections, participants, mutedOf, isMuted,
                 audioSources, recvq, made, closed, offers, answers, failed, cleanup,
                 snapshot, heard, ncands>>

\* the canplay listener of handleRemoteStream: addAudioSource, which makes no
\* source while spatial audio is disabled, then the position of the
\* participant record, if there is one.  The listener belongs to the element
\* and looks neither at the document nor at the links: the browser may run it
\* for an element that removePeerConnection has taken out of the document.
CanPlay(c, P) ==
  /\ page[c] = "open"
  /\ P \in loading[c]
  /\ P \notin DOMAIN audioSources[c]
  /\ loading' = [loading EXCEPT ![c] = @ \ {P}]
  /\ played' = [played EXCEPT ![c] = @ \cup {P}]
  /\ LET added == isEnabled[c]
         sources == IF added THEN MapSet(audioSources[c], P, Origin) ELSE audioSources[c]
         gains == IF added THEN MapSet(gainNode[c], P, DefaultVolume) ELSE gainNode[c]
     IN  IF P \in DOMAIN participants[c]
           THEN /\ audioSources' = [audioSources EXCEPT ![c] =
                     PannerAfter(sources, isEnabled[c], P, participants[c][P])]
                /\ gainNode' = [gainNode EXCEPT ![c] =
                     GainAfter(gains, isEnabled[c], P, participants[c][P])]
           ELSE /\ audioSources' = [audioSources EXCEPT ![c] = sources]
                /\ gainNode' = [gainNode EXCEPT ![c] = gains]
  /\ UNCHANGED <<svars, tvars, mvars, hvars, dvars, isEnabled, ntoggles, page, localStream, peerConnections, participants, mutedOf, isMuted,
                 audioElements, recvq, made, closed, offers, answers, failed, cleanup,
                 snapshot, heard, ncands>>

\* a click on the spatial toggle: toggleSpatialAudio flips isEnabled, then
\* calls updateAudioSourcePosition for every source, with the origin when
\* spatial audio is now disabled and with the stored position of the source
\* when it is now enabled
ToggleSpatialAudio(c) ==
  /\ page[c] = "open"
  /\ Listening(c)
  /\ ntoggles' = ntoggles + 1
  /\ LET en == ~isEnabled[c]
         target(P) == IF en THEN audioSources[c][P] ELSE Origin
     IN  /\ isEnabled' = [isEnabled EXCEPT ![c] = en]
         /\ audioSources' = [audioSources EXCEPT ![c] =
              [P \in DOMAIN @ |-> PannerAfter(@, en, P, target(P))[P]]]
         /\ gainNode' = [gainNode EXCEPT ![c] =
              [P \in DOMAIN @ |-> GainAfter(@, en, P, target(P))[P]]]
  /\ UNCHANGED <<svars, tvars, mvars, hvars, dvars, played, loading, page, localStream, peerConnections,
                 participants, mutedOf, isMuted, audioElements, recvq, made, closed, offers, answers,
                 failed, cleanup, snapshot, heard, ncands>>

\* updateUserPosition: the page emits position-update (the canvas listeners
\* are set up after initializeSocket has returned)
UpdateUserPosition(c, p) ==
  /\ page[c] = "open"
  /\ Listening(c)
  /\ PositionUpdate(c, p)
  /\ recvq' = Enqueue(recvq, emits')
  /\ UNCHANGED <<tvars, avars, mvars, hvars, dvars, page, localStream, peerConnections, participants, mutedOf, isMuted,
                 audioElements, audioSources, made, closed, offers, answers, failed,
                 cleanup, snapshot, heard, ncands>>

\* toggleMute: the local track is switched, isMuted takes the new value and
\* the page emits toggle-mute with it
ToggleMuteButton(c) ==
  /\ page[c] = "open"
  /\ Listening(c)
  /\ isMuted' = [isMuted EXCEPT ![c] = ~@]
  /\ ToggleMute(c, isMuted'[c])
  /\ recvq' = Enqueue(recvq, emits')
  /\ UNCHANGED <<tvars, avars, mvars, hvars, dvars, page, localStream, peerConnections, participants,
                 mutedOf, audioElements, audioSources, made, closed, offers, answers, failed,
                 cleanup, snapshot, heard, ncands>>

\* socket.on('user-mute-update'): updateParticipantMuteStatus changes the
\* record of the peer, if there is one
UpdateParticipantMuteStatus(c) ==
  /\ Dispatch(c, "user-mute-update")
  /\ LET P == Head(recvq[c]).from
     IN  mutedOf' = IF P \in DOMAIN participants[c]
                      THEN [mutedOf EXCEPT ![c][P] = Head(recvq[c]).muted]
                      ELSE mutedOf
  /\ recvq' = Rest(c)
  /\ UNCHANGED <<svars, tvars, avars, mvars, hvars, dvars, page, localStream, peerConnections,
                 participants, isMuted, audioElements, audioSources, made, closed, offers,
                 answers, failed, cleanup, snapshot, heard, ncands>>

\* peerConnection.onconnectionstatechange with connectionState "failed"
ConnectionFailed(c, P) ==
  /\ page[c] = "open"
  /\ P \in DOMAIN peerConnections[c]
  /\ P \notin failed[c]
  /\ failed' = [failed EXCEPT ![c] = @ \cup {P}]
  /\ UNCHANGED <<svars, tvars, avars, mvars, hvars, dvars, page, localStream, peerConnections, participants, mutedOf, isMuted,
                 audioElements, audioSources, recvq, made, closed, offers, answers,
                 cleanup, snapshot, heard, ncands>>

\* leaveRoom: when the leave request resolves (ok) the page closes its links,
\* stops its media, disposes its audio sources and disconnects its socket
\* before it navigates away; when the request rejects the catch block only
\* navigates away.  Navigation discards the page with everything it holds and
\* closes the socket in both cases.
LeaveRoom(c, ok) ==
  /\ page[c] = "open"
  /\ Listening(c)
  /\ Disconnect(c)
  /\ recvq' = [Enqueue(recvq, emits') EXCEPT ![c] = <<>>]
  /\ cleanup' = [cleanup EXCEPT ![c] =
       IF ok THEN {"links", "media", "sources", "socket"} ELSE {}]
  /\ page' = [page EXCEPT ![c] = "gone"]
  /\ localStream' = [localStream EXCEPT ![c] = "none"]
  /\ peerConnections' = [peerConnections EXCEPT ![c] = <<>>]
  /\ participants' = [participants EXCEPT ![c] = <<>>]
  /\ mutedOf' = [mutedOf EXCEPT ![c] = <<>>]
  /\ isMuted' = [isMuted EXCEPT ![c] = FALSE]
  /\ audioElements' = [audioElements EXCEPT ![c] = {}]
  /\ audioSources' = [audioSources EXCEPT ![c] = <<>>]
  /\ made' = [made EXCEPT ![c] = [p \in Conns |-> 0]]
  /\ closed' = [closed EXCEPT ![c] = {}]
  /\ offers' = [offers EXCEPT ![c] = [p \in Conns |-> 0]]
  /\ answers' = [answers EXCEPT ![c] = [p \in Conns |-> 0]]
  /\ failed' = [failed EXCEPT ![c] = {}]
  /\ snapshot' = [snapshot EXCEPT ![c] = {}]
  /\ heard' = [heard EXCEPT ![c] = <<>>]
  /\ isEnabled' = [isEnabled EXCEPT ![c] = TRUE]
  /\ gainNode' = [gainNode EXCEPT ![c] = <<>>]
  /\ played' = [played EXCEPT ![c] = {}]
  /\ loading' = [loading EXCEPT ![c] = {}]
  /\ UNCHANGED <<tvars, mvars, hvars, dvars, ncands, ntoggles>>

\* the transport of the socket is lost: the server runs its disconnect
\* handler; socket.on('disconnect') on the page only changes the status text
TransportDrop(c) ==
  /\ page[c] = "open"
  /\ Disconnect(c)
  /\ recvq' = [Enqueue(recvq, emits') EXCEPT ![c] = <<>>]
  /\ page' = [page EXCEPT ![c] = "dropped"]
  /\ UNCHANGED <<tvars, avars, mvars, hvars, dvars, localStream, peerConnections, participants, mutedOf, isMuted, audioElements,
                 audioSources, made, closed, offers, answers, failed, cleanup,
                 snapshot, heard, ncands>>

\* the state of the page, carried from the lost socket c to the new socket d
Move(f, c, d, empty) == [f EXCEPT ![d] = f[c], ![c] = empty]

\* socket.io-client reconnects a lost transport by itself: the same socket
\* object, with its listeners and with the managers of the page untouched,
\* comes back as a fresh socket d of the server.  The 'connect' listener
\* (OnConnect) emits join-room again.
Reconnect(c, d) ==
  /\ page[c] = "dropped"
  /\ Connection(d)
  /\ page' = [page EXCEPT ![c] = "moved", ![d] = "open"]
  /\ localStream' = Move(localStream, c, d, "none")
  /\ peerConnections' = Move(peerConnections, c, d, <<>>)
  /\ participants' = Move(participants, c, d, <<>>)
  /\ mutedOf' = Move(mutedOf, c, d, <<>>)
  /\ isMuted' = Move(isMuted, c, d, FALSE)
  /\ audioElements' = Move(audioElements, c, d, {})
  /\ audioSources' = Move(audioSources, c, d, <<>>)
  /\ made' = Move(made, c, d, [p \in Conns |-> 0])
  /\ closed' = Move(closed, c, d, {})
  /\ offers' = Move(offers, c, d, [p \in Conns |-> 0])
  /\ answers' = Move(answers, c, d, [p \in Conns |-> 0])
  /\ failed' = Move(failed, c, d, {})
  /\ cleanup' = Move(cleanup, c, d, {})
  /\ snapshot' = Move(snapshot, c, d, {})
  /\ heard' = Move(heard, c, d, <<>>)
  /\ isEnabled' = Move(isEnabled, c, d, TRUE)
  /\ gainNode' = Move(gainNode, c, d, <<>>)
  /\ played' = Move(played, c, d, {})
  /\ loading' = Move(loading, c, d, {})
  /\ UNCHANGED <<tvars, mvars, hvars, dvars, recvq, ncands, ntoggles>>

\* negotiation failures so far
Fails == LET RECURSIVE Sum(_)
             Sum(S) == IF S = {} THEN 0
                       ELSE LET c == CHOOSE x \in S : TRUE
                            IN  Cardinality(failed[c]) + Sum(S \ {c})
         IN  Sum(Conns)

\* pages that have left or lost their transport so far
Leaves == Cardinality({c \in Conns : page[c] \in {"gone", "dropped"}})

\* The two room ids are interchangeable: the page that finds the registry
\* empty takes the first.
NextRoom(r) == r = 101 \/ rooms # <<>>

\* The candidates of a link follow the description they belong to: the
\* candidate is handled by the server next after the offer, the answer or the
\* previous candidate of the same link (a relay handler changes nothing on the
\* server, so the handlers of other sockets in between make no difference).
Gathering(c, P) == last.op \in SignalKinds /\ last.sock = c /\ last.name = P

\* ---- the client specification: joining, negotiating, leaving ----
NextClient ==
  \/ \E c \in 1..ClientConns : InitializeSocket(c)
  \/ \E c \in Conns, r \in RoomIds : NextRoom(r) /\ OnConnect(c, r)
  \/ \E c \in Conns : GetUserMedia(c)
  \/ \E c \in Conns : DropEvent(c)
  \/ \E c \in Conns, ok \in BOOLEAN : (ok \/ Fails < MaxFails) /\ OnUserJoined(c, ok)
  \/ \E c \in Conns : OnExistingUsers(c)
  \/ \E c \in Conns : OnUserLeft(c)
  \/ \E c \in Conns, ok \in BOOLEAN : (ok \/ Fails < MaxFails) /\ HandleOffer(c, ok)
  \/ \E c \in Conns, ok \in BOOLEAN : (ok \/ Fails < MaxFails) /\ HandleAnswer(c, ok)
  \/ \E c \in Conns, ok \in BOOLEAN : Leaves < MaxLeaves /\ LeaveRoom(c, ok)

SpecClient == Init /\ [][NextClient]_vars

\* ---- the candidate specification: joining, negotiating, exchanging candidates ----
NextIce ==
  \/ \E c \in 1..ClientConns : InitializeSocket(c)
  \/ \E c \in Conns, r \in RoomIds : NextRoom(r) /\ OnConnect(c, r)
  \/ \E c \in Conns : GetUserMedia(c)
  \/ \E c \in Conns : DropEvent(c)
  \/ \E c \in Conns, ok \in BOOLEAN : (ok \/ Fails < MaxFails) /\ OnUserJoined(c, ok)
  \/ \E c \in Conns : OnExistingUsers(c)
  \/ \E c \in Conns, ok \in BOOLEAN : (ok \/ Fails < MaxFails) /\ HandleOffer(c, ok)
  \/ \E c \in Conns, ok \in BOOLEAN : (ok \/ Fails < MaxFails) /\ HandleAnswer(c, ok)
  \/ \E c \in Conns, P \in Conns : Gathering(c, P) /\ OnIceCandidate(c, P)
  \/ \E c \in Conns : HandleIceCandidate(c)

SpecIce == Init /\ [][NextIce]_vars

\* ---- the page specification: media, positions, failures, leaving, lost transports ----
NextPage ==
  \/ \E c \in 1..ClientConns : InitializeSocket(c)
  \/ \E c \in Conns, r \in RoomIds : NextRoom(r) /\ OnConnect(c, r)
  \/ \E c \in Conns : GetUserMedia(c)
  \/ \E c \in Conns : DropEvent(c)
  \/ \E c \in Conns, ok \in BOOLEAN : (ok \/ Fails < MaxFails) /\ OnUserJoined(c, ok)
  \/ \E c \in Conns : OnExistingUsers(c)
  \/ \E c \in Conns : OnUserLeft(c)
  \/ \E c \in Conns, ok \in BOOLEAN : (ok \/ Fails < MaxFails) /\ HandleOffer(c, ok)
  \/ \E c \in Conns, ok \in BOOLEAN : (ok \/ Fails < MaxFails) /\ HandleAnswer(c, ok)
  \/ \E c \in Conns : UpdateParticipantPosition(c)
  \/ \E c \in Conns, P \in Conns : HandleRemoteStream(c, P)
  \/ \E c \in Conns, P \in Conns : CanPlay(c, P)
  \/ \E c \in Conns, p \in Positions :
       nupdates < MaxMoves /\ UpdateUserPosition(c, p)
  \/ \E c \in Conns, P \in Conns : Fails < MaxFails /\ ConnectionFailed(c, P)
  \/ \E c \in Conns, ok \in BOOLEAN : LeaveRoom(c, ok)
  \/ \E c \in Conns : TransportDrop(c)

SpecPage == Init /\ [][NextPage]_vars

\* ---- the reconnect specification: joining, negotiating, a transport that is
\* lost and comes back; every page has the URL of room 101 ----
NextReconnect ==
  \/ \E c \in 1..ClientConns : InitializeSocket(c)
  \/ \E c \in Conns : OnConnect(c, 101)
  \/ \E c \in Conns : GetUserMedia(c)
  \/ \E c \in Conns : DropEvent(c)
  \/ \E c \in Conns : OnUserJoined(c, TRUE)
  \/ \E c \in Conns : OnExistingUsers(c)
  \/ \E c \in Conns : OnUserLeft(c)
  \/ \E c \in Conns : HandleOffer(c, TRUE)
  \/ \E c \in Conns : HandleAnswer(c, TRUE)
  \/ \E c \in Conns : Leaves < MaxLeaves /\ TransportDrop(c)
  \/ \E c \in Conns, d \in Conns : Reconnect(c, d)

SpecReconnect == Init /\ [][NextReconnect]_vars

\* ---- the view specification: joining, negotiating, position and mute
\* updates and what the pages record of them ----
NextView ==
  \/ \E c \in 1..ClientConns : InitializeSocket(c)
  \/ \E c \in Conns, r \in RoomIds : NextRoom(r) /\ OnConnect(c, r)
  \/ \E c \in Conns : GetUserMedia(c)
  \/ \E c \in Conns : DropEvent(c)
  \/ \E c \in Conns : OnUserJoined(c, TRUE)
  \/ \E c \in Conns : OnExistingUsers(c)
  \/ \E c \in Conns : HandleOffer(c, TRUE)
  \/ \E c \in Conns : HandleAnswer(c, TRUE)
  \/ \E c \in Conns : UpdateParticipantPosition(c)
  \/ \E c \in Conns : UpdateParticipantMuteStatus(c)
  \/ \E c \in Conns, p \in Positions :
       nupdates < MaxMoves /\ UpdateUserPosition(c, p)
  \/ \E c \in Conns : nupdates < MaxMoves /\ ToggleMuteButton(c)

SpecView == Init /\ [][NextView]_vars

\* ---- the media specification: joining and negotiating with pages whose
\* getUserMedia resolves or rejects ----
NextMedia ==
  \/ \E c \in 1..ClientConns : InitializeSocket(c)
  \/ \E c \in Conns, r \in RoomIds : NextRoom(r) /\ OnConnect(c, r)
  \/ \E c \in Conns : GetUserMedia(c)
  \/ \E c \in Conns : GetUserMediaRejects(c)
  \/ \E c \in Conns : DropEvent(c)
  \/ \E c \in Conns : OnUserJoined(c, TRUE)
  \/ \E c \in Conns : OnExistingUsers(c)
  \/ \E c \in Conns : HandleOffer(c, TRUE)
  \/ \E c \in Conns : HandleAnswer(c, TRUE)

SpecMedia == Init /\ [][NextMedia]_vars

\* ---- the audio specification: media, positions, the spatial toggle ----
NextAudio ==
  \/ \E c \in 1..ClientConns : InitializeSocket(c)
  \/ \E c \in Conns, r \in RoomIds : NextRoom(r) /\ OnConnect(c, r)
  \/ \E c \in Conns : GetUserMedia(c)
  \/ \E c \in Conns : DropEvent(c)
  \/ \E c \in Conns : OnUserJoined(c, TRUE)
  \/ \E c \in Conns : OnExistingUsers(c)
  \/ \E c \in Conns : OnUserLeft(c)
  \/ \E c \in Conns : HandleOffer(c, TRUE)
  \/ \E c \in Conns : HandleAnswer(c, TRUE)
  \/ \E c \in Conns : UpdateParticipantPosition(c)
  \/ \E c \in Conns, P \in Conns : HandleRemoteStream(c, P)
  \/ \E c \in Conns, P \in Conns : CanPlay(c, P)
  \/ \E c \in Conns, p \in Positions :
       nupdates < MaxMoves /\ UpdateUserPosition(c, p)
  \/ \E c \in Conns : ntoggles < MaxToggles /\ ToggleSpatialAudio(c)
  \/ \E c \in Conns : Leaves < MaxLeaves /\ LeaveRoom(c, TRUE)

SpecAudio == Init /\ [][NextAudio]_vars

\* ---- the mapping specification: the coordinate conversions and the gain law ----
\* The canvas of the room page is 800 by 600; the second size has no factor
\* in common with the scale of the world.
CanvasSizes == {<<800, 600>>, <<7, 3>>}
Pixels(size) == {k \in 0..MaxPixel : k <= size} \cup {size}
Distances == {Ratio(k, 2) : k \in 0..MaxNear} \cup {Num(32 * k) : k \in 1..MaxFar}

MapInputs ==
  UNION {{[op |-> "args", canvasX |-> x, canvasY |-> y, canvasWidth |-> size[1],
           canvasHeight |-> size[2], distance |-> <<d1, d2>>] :
            x \in Pixels(size[1]), y \in Pixels(size[2]),
            d1 \in Distances, d2 \in Distances} : size \in CanvasSizes}

InitMapping ==
  /\ InitProgram
  /\ mapIn \in MapInputs
  /\ mapOut = [world |-> <<>>, canvas |-> <<>>, gain |-> <<>>]

CanvasToWorldStep ==
  /\ mapOut.world = <<>>
  /\ mapOut' = [mapOut EXCEPT !.world =
       CanvasToWorldPosition(Num(mapIn.canvasX), Num(mapIn.canvasY),
                             Num(mapIn.canvasWidth), Num(mapIn.canvasHeight))]
  /\ UNCHANGED <<svars, tvars, cvars, avars, hvars, dvars, mapIn>>

WorldToCanvasStep ==
  /\ mapOut.world # <<>>
  /\ mapOut.canvas = <<>>
  /\ mapOut' = [mapOut EXCEPT !.canvas =
       WorldToCanvasPosition(mapOut.world[1], mapOut.world[2], mapOut.world[3],
                             Num(mapIn.canvasWidth), Num(mapIn.canvasHeight))]
  /\ UNCHANGED <<svars, tvars, cvars, avars, hvars, dvars, mapIn>>

GainStep ==
  /\ mapOut.gain = <<>>
  /\ mapOut' = [mapOut EXCEPT !.gain =
       <<GainValue(mapIn.distance[1]), GainValue(mapIn.distance[2])>>]
  /\ UNCHANGED <<svars, tvars, cvars, avars, hvars, dvars, mapIn>>

NextMapping ==
  \/ CanvasToWorldStep
  \/ WorldToCanvasStep
  \/ GainStep

SpecMapping == InitMapping /\ [][NextMapping]_vars

\* ---- the join route: router.post('/:roomId/join') of routes/rooms.js ----
\* The rooms table holds the rooms created before; no route deletes a room.
\* Every statement of a request runs, with its callback, as one step; the
\* statements of different requests run in any order.  ok is FALSE when the
\* database reports an error.
RoomsTable == {101}
Users == 1..MaxUsers
Row(q) == <<joinReq[q].roomId, joinReq[q].userId>>
Answer(q, code) == [joinReq EXCEPT ![q].pc = "done", ![q].status = code]

\* the request arrives with a session: db.get on rooms is issued
PostJoin(q, room, user) ==
  /\ joinReq[q].pc = "none"
  /\ \A k \in 1..(q - 1) : joinReq[k].pc # "none"
  /\ joinReq' = [joinReq EXCEPT ![q] =
       [pc |-> "get-room", roomId |-> room, userId |-> user, status |-> 0]]
  /\ UNCHANGED roomParticipants

\* SELECT * FROM rooms WHERE id = ? and its callback
GetRoom(q, ok) ==
  /\ joinReq[q].pc = "get-room"
  /\ joinReq' = IF ~ok THEN Answer(q, 500)
                ELSE IF joinReq[q].roomId \notin RoomsTable THEN Answer(q, 404)
                ELSE [joinReq EXCEPT ![q].pc = "get-participant"]
  /\ UNCHANGED roomParticipants

\* SELECT * FROM room_participants WHERE room_id = ? AND user_id = ? and its
\* callback
GetParticipant(q, ok) ==
  /\ joinReq[q].pc = "get-participant"
  /\ joinReq' = IF ~ok THEN Answer(q, 500)
                ELSE IF BagIn(Row(q), roomParticipants) THEN Answer(q, 200)
                ELSE [joinReq EXCEPT ![q].pc = "insert"]
  /\ UNCHANGED roomParticipants

\* INSERT INTO room_participants (room_id, user_id) VALUES (?, ?) and its
\* callback
InsertParticipant(q, ok) ==
  /\ joinReq[q].pc = "insert"
  /\ IF ok
       THEN /\ roomParticipants' = roomParticipants (+) SetToBag({Row(q)})
            /\ joinReq' = Answer(q, 200)
       ELSE /\ roomParticipants' = roomParticipants
            /\ joinReq' = Answer(q, 500)

NextJoin ==
  \/ \E q \in 1..MaxRequests, room \in RoomIds, user \in Users :
       PostJoin(q, room, user) /\ UNCHANGED <<svars, tvars, cvars, avars, mvars, hvars>>
  \/ \E q \in 1..MaxRequests, ok \in BOOLEAN :
       GetRoom(q, ok) /\ UNCHANGED <<svars, tvars, cvars, avars, mvars, hvars>>
  \/ \E q \in 1..MaxRequests, ok \in BOOLEAN :
       GetParticipant(q, ok) /\ UNCHANGED <<svars, tvars, cvars, avars, mvars, hvars>>
  \/ \E q \in 1..MaxRequests, ok \in BOOLEAN :
       InsertParticipant(q, ok) /\ UNCHANGED <<svars, tvars, cvars, avars, mvars, hvars>>

SpecJoin == Init /\ [][NextJoin]_vars

\* ======================= claims =======================
UserJoined(to, from) == Msg(to, "user-joined", from, Origin, FALSE, 0, NoUsers)
UserLeft(to, from) == Msg(to, "user-left", from, Origin, FALSE, 0, NoUsers)
Received(bag, to, ev) == {d \in BagToSet(bag) : d.to = to /\ d.ev = ev}
Count(bag, to, ev) ==
  LET ds == Received(bag, to, ev)
      RECURSIVE Sum(_)
      Sum(S) == IF S = {} THEN 0
                ELSE LET d == CHOOSE x \in S : TRUE IN CopiesIn(d, bag) + Sum(S \ {d})
  IN  Sum(ds)
InRooms(c) == {R \in Names : c \in RoomUsers(R)}

\* C1: for every room R the participant set the rooms map holds for R is
\* exactly the set of connections that sent join-room for R and have not
\* disconnected since.
C1_RegistryIsJoinedNotLeft ==
  \A R \in Names :
    RoomUsers(R) = {c \in Conns : status[c] = "live" /\ R \in joined[c]}

\* C2: a connection handle is in the participant set of at most one room.
C2_AtMostOneRoom ==
  \A c \in Conns : Cardinality(InRooms(c)) <= 1

\* C3: a live connection c is in the participant set of room R if and only if
\* socket.roomId of c is R.
C3_MembershipMatchesRoomId ==
  \A c \in Live : \A R \in Names : (c \in RoomUsers(R)) <=> (roomId[c] = R)

\* C4: a join-room creates the room it names, and a room is absent from the
\* registry once every connection that ever joined it has disconnected.
C4_RoomLifecycle ==
  /\ last.op = "join-room" => HasRoom(last.name)
  /\ \A R \in Names :
       ( /\ \E c \in Conns : R \in joined[c]
         /\ \A c \in Conns : R \in joined[c] => status[c] = "dead" )
       => ~HasRoom(R)

\* C5: on join-room of J for R every prior member of R gets exactly one
\* user-joined {J, origin}, J gets none, and J gets exactly one existing-users
\* whose entries are exactly the prior members other than J, all of them
\* connections that have not disconnected.
C5_JoinFanOut ==
  [][ (last'.op = "join-room" /\ njoins' = njoins + 1) =>
        LET J == last'.sock
            prior == RoomUsers(last'.name) \ {J}
        IN  /\ \A m \in prior : CopiesIn(UserJoined(m, J), emits') = 1
                                /\ Count(emits', m, "user-joined") = 1
            /\ Count(emits', J, "user-joined") = 0
            /\ Count(emits', J, "existing-users") = 1
            /\ \A d \in Received(emits', J, "existing-users") :
                 /\ {u.socketId : u \in d.users} = prior
                 /\ \A u \in d.users : status[u.socketId] = "live"
    ]_vars

\* C6: on position-update p / toggle-mute m of a room member A the registry
\* stores the value for A, every live member of the room socket.roomId of A
\* other than A gets exactly one user-position-update / user-mute-update
\* {A, value}, and nobody else (not A, no connection outside that room) gets one.
C6_UpdateFanOut ==
  [][ (nupdates' = nupdates + 1 /\ InRoom(last'.sock)) =>
        LET A == last'.sock
            R == roomId[A]
            ev == IF last'.op = "position-update" THEN "user-position-update"
                                                  ELSE "user-mute-update"
            m == Msg(0, ev, A, last'.position, last'.muted, 0, NoUsers)
        IN  /\ last'.op = "position-update" => rooms'[R][A].position = last'.position
            /\ last'.op = "toggle-mute" => rooms'[R][A].muted = last'.muted
            /\ \A c \in Conns :
                 /\ Count(emits', c, ev) = IF c \in (RoomUsers(R) \cap Live) \ {A} THEN 1 ELSE 0
                 /\ \A d \in Received(emits', c, ev) : d = [m EXCEPT !.to = c]
    ]_vars

\* C7: on disconnect of A every remaining member of every room whose
\* participant set contained A gets exactly one user-left {A}; such a room
\* stays while a member remains, and is deleted without any user-left when A
\* was its last member.
C7_DisconnectFanOut ==
  [][ (status[last'.sock] = "live" /\ status'[last'.sock] = "dead") =>
        LET A == last'.sock
        IN  \A R \in InRooms(A) :
              LET remaining == RoomUsers(R) \ {A}
              IN  IF remaining # {}
                    THEN /\ R \in DOMAIN rooms'
                         /\ A \notin DOMAIN rooms'[R]
                         /\ \A b \in remaining \cap Live :
                              /\ CopiesIn(UserLeft(b, A), emits') = 1
                              /\ Count(emits', b, "user-left") = 1
                    ELSE /\ R \notin DOMAIN rooms'
                         /\ emits' = EmptyBag
    ]_vars

\* C8: a signaling message of A naming a live target B other than A reaches B
\* exactly once, with the kind and payload A sent and with A's own socket id
\* as its sender.
C8_SignalDelivered ==
  (last.op \in SignalKinds /\ last.name \in Live /\ last.name # last.sock) =>
     /\ CopiesIn(Msg(last.name, last.op, last.sock, Origin, FALSE, last.payload, NoUsers),
                 emits) = 1
     /\ \A k \in SignalKinds :
          Count(emits, last.name, k) = IF k = last.op THEN 1 ELSE 0

C8_Witness ==
  /\ last.op = "answer"
  /\ last.name \in Live
  /\ last.name # last.sock
  /\ roomId[last.sock] # roomId[last.name]
  /\ Count(emits, last.name, "answer") = 1

\* C9: a signaling message whose target is not a live connection is
\* delivered to nobody and changes no server state, and nothing is handed to
\* a connection when it connects.
C9_DeadTargetDropped ==
  [][ /\ (last'.op \in SignalKinds /\ last'.name \notin Live) =>
          /\ emits' = EmptyBag
          /\ UNCHANGED <<status, roomId, adapter, rooms>>
      /\ last'.op = "connection" => emits' = EmptyBag
    ]_vars

\* C10: the signaling messages one sender addressed to one target reach that
\* target in the order the sender sent them (sequence numbers of one sender
\* only grow along the target's stream), whatever else is interleaved.
FromTo(a, b) == SelectSeq(inbox[b], LAMBDA m : m.from = a)

C10_RelayKeepsOrder ==
  \A a \in Conns, b \in Conns :
    \A i \in DOMAIN FromTo(a, b), j \in DOMAIN FromTo(a, b) :
      i < j => FromTo(a, b)[i].payload < FromTo(a, b)[j].payload

C10_Witness ==
  \E a \in Conns, b \in Conns :
    /\ a # b
    /\ Len(FromTo(a, b)) = 2
    /\ FromTo(a, b)[1].payload = 1
    /\ FromTo(a, b)[2].payload = 3
    /\ FromTo(a, b)[1].ev # FromTo(a, b)[2].ev
    /\ Len(FromTo(b, a)) = 1

\* C11: a position-update, a toggle-mute or a disconnect of a connection that
\* is in the participant set of no room leaves the rooms map (rooms, members,
\* stored positions and muted flags) as it was and emits no message.
C11_OutsiderIsNoOp ==
  [][ ( /\ \/ nupdates' = nupdates + 1
           \/ (last'.op = "disconnect" /\ status[last'.sock] = "live"
                                        /\ status'[last'.sock] = "dead")
        /\ InRooms(last'.sock) = {} )
      => (rooms' = rooms /\ emits' = EmptyBag)
    ]_vars

C11_Witness ==
  /\ last.op \in {"position-update", "toggle-mute"}
  /\ joined[last.sock] = {}
  /\ \E R \in RoomIds : RoomUsers(R) # {}
  /\ emits = EmptyBag

\* page c dispatches the server message at the head of its queue to its
\* listener for ev
Handles(c, ev) ==
  /\ Dispatch(c, ev)
  /\ ev \in WebRTCEvents => Listening(c)
  /\ page'[c] = "open"
  /\ recvq'[c] = Tail(recvq[c])

LeftInFlight(c, P) ==
  \E i \in DOMAIN recvq[c] : recvq[c][i].ev = "user-left" /\ recvq[c][i].from = P

\* C12: a page holds a peer link for P only if P is a member of the room the
\* page itself is a member of (a user-left for P that the page has not
\* dispatched yet excepted).
C12_LinkOnlyToRoomMember ==
  \A c \in Conns : \A P \in DOMAIN peerConnections[c] :
    \/ /\ status[c] = "live"
       /\ InRoom(c)
       /\ status[P] = "live"
       /\ P \in RoomUsers(roomId[c])
    \/ LeftInFlight(c, P)

\* C13: once a joined page has its local media and has dispatched everything
\* it received, every user of its existing-users snapshot that is still a
\* member of the room has a participant record and a peer link on the page.
C13_SnapshotMembersLinked ==
  \A c \in Conns :
    (page[c] = "open" /\ Listening(c) /\ recvq[c] = <<>> /\ InRoom(c)) =>
      \A m \in snapshot[c] :
        (status[m] = "live" /\ m \in RoomUsers(roomId[c])) =>
          (m \in DOMAIN participants[c] /\ m \in DOMAIN peerConnections[c])

C17_TeardownRemovesAll ==
  [][ \A c \in Conns :
        /\ Handles(c, "user-left") =>
             LET P == Head(recvq[c]).from
             IN  /\ P \notin DOMAIN peerConnections'[c]
                 /\ P \notin DOMAIN participants'[c]
                 /\ P \notin DOMAIN audioSources'[c]
                 /\ P \notin audioElements'[c]
                 /\ P \in DOMAIN peerConnections[c] => <<P, made[c][P]>> \in closed'[c]
                 /\ ( /\ P \notin DOMAIN peerConnections[c]
                      /\ P \notin DOMAIN participants[c]
                      /\ P \notin DOMAIN audioSources[c]
                      /\ P \notin audioElements[c] )
                    => UNCHANGED <<peerConnections, participants, audioSources,
                                   audioElements, closed>>
        /\ (page[c] = "open" /\ page'[c] = "gone") =>
             /\ {"links", "sources"} \subseteq cleanup'[c]
             /\ peerConnections'[c] = <<>>
             /\ participants'[c] = <<>>
             /\ audioSources'[c] = <<>>
    ]_vars

\* C18: when the negotiation with P fails on a page (an offer or an answer
\* cannot be made or applied, or the connection state becomes failed) the
\* page has no link for P afterwards.
C18_FailedLinkRemoved ==
  [][ \A c \in Conns : \A P \in failed'[c] \ failed[c] :
        P \notin DOMAIN peerConnections'[c]
    ]_vars

\* C19: a page that leaves has closed its links, stopped its local media and
\* disconnected its socket before it is gone, whether the leave request
\* succeeds or not.
C19_LeaveCleansUp ==
  [][ \A c \in Conns :
        (page[c] = "open" /\ page'[c] = "gone") =>
          {"links", "media", "socket"} \subseteq cleanup'[c]
    ]_vars

\* C20: an audio source made for P starts at the position of the last
\* user-position-update the page received for P (at the position of the
\* participant record, or the origin without one, when none was received).
C20_SourceStartsAtLastPosition ==
  [][ \A c \in Conns : \A P \in (DOMAIN audioSources'[c]) \ (DOMAIN audioSources[c]) :
        audioSources'[c][P] =
          IF P \in DOMAIN heard[c] THEN heard[c][P]
          ELSE IF P \in DOMAIN participants[c] THEN participants[c][P]
          ELSE Origin
    ]_vars

\* page c handles a click on its spatial toggle
Toggles(c) == isEnabled'[c] # isEnabled[c]

\* C21: on an open page, a peer whose audio element has fired canplay and
\* whose link is still there has an audio source (the map holds one per
\* peer), whatever isEnabled was when canplay fired; and there is no audio
\* source for a peer without a link.
C21_OneSourcePerPlayableStream ==
  \A c \in Conns : page[c] = "open" =>
    /\ \A P \in played[c] :
         P \in DOMAIN peerConnections[c] => P \in DOMAIN audioSources[c]
    /\ \A P \in DOMAIN audioSources[c] : P \in DOMAIN peerConnections[c]

\* C22: the click that disables spatial audio leaves every audio source of
\* the page at the origin with the gain of the origin, and removes none.
C22_ToggleOffCentersSources ==
  [][ \A c \in Conns :
        (Toggles(c) /\ ~isEnabled'[c]) =>
          /\ DOMAIN audioSources'[c] = DOMAIN audioSources[c]
          /\ \A P \in DOMAIN audioSources'[c] :
               /\ audioSources'[c][P] = Origin
               /\ gainNode'[c][P] = GainValue(Distance(World(Origin)))
    ]_vars

\* C23: the click that enables spatial audio again leaves every audio source
\* at the position of the participant record, which is the position of the
\* last user-position-update the page handled for that participant.
C23_ToggleOnRestoresPositions ==
  [][ \A c \in Conns :
        (Toggles(c) /\ isEnabled'[c]) =>
          \A P \in DOMAIN audioSources'[c] :
            P \in DOMAIN participants[c] => audioSources'[c][P] = participants[c][P]
    ]_vars

\* the machine epsilon: the gap between 1 and the next number
Eps == <<Pow2(Precision - 1), 2 - 2 * Precision>>
FAbs(a) == <<Abs(a[1]), a[2]>>
Computed(field) == mapIn.op = "args" /\ field # <<>>

\* C24 (as stated): the gain computed for a distance >= 0 lies between 0.1
\* and 0.5.
C24_GainAboveTenth ==
  Computed(mapOut.gain) =>
    \A i \in 1..2 : /\ FLe(Ratio(1, 10), mapOut.gain[i])
                    /\ FLe(mapOut.gain[i], Ratio(1, 2))

\* C24 (as amended): the gain computed for a distance >= 0 lies between 0.05
\* and 0.5: the floor 0.1 bounds the volume multiplier, which is then halved.
C24_GainBounded ==
  Computed(mapOut.gain) =>
    \A i \in 1..2 : /\ FLe(Ratio(1, 20), mapOut.gain[i])
                    /\ FLe(mapOut.gain[i], Ratio(1, 2))

C24_Witness ==
  /\ Computed(mapOut.gain)
  /\ mapOut.gain[1] = Ratio(1, 20)
  /\ mapOut.gain[2] = Ratio(1, 2)

\* C25: the gain does not grow with the distance, and at distance 0 it is
\* 0.5, the gain addAudioSource gives a new source.
C25_GainMonotone ==
  Computed(mapOut.gain) =>
    /\ FLe(mapIn.distance[1], mapIn.distance[2]) => FLe(mapOut.gain[2], mapOut.gain[1])
    /\ \A i \in 1..2 : mapIn.distance[i] = FZero =>
         (mapOut.gain[i] = Ratio(1, 2) /\ mapOut.gain[i] = DefaultVolume)

C25_Witness ==
  /\ Computed(mapOut.gain)
  /\ mapIn.distance[1] = FZero
  /\ mapOut.gain[1] = DefaultVolume
  /\ mapOut.gain[2] # mapOut.gain[1]
  /\ FLe(mapOut.gain[2], mapOut.gain[1])
  /\ mapOut.gain[2] # Ratio(1, 20)

\* canvasToWorldPosition yields y = 0 and x, z in [-10, 10]
WorldInRange ==
  Computed(mapOut.world) =>
    /\ mapOut.world[2] = FZero
    /\ \A i \in {1, 3} : /\ FLe(Num(0 - 10), mapOut.world[i])
                         /\ FLe(mapOut.world[i], Num(10))

\* C26 (as stated): the canvas position that comes back from the two
\* conversions equals the one that went in, and the world position in between
\* has y = 0 and x, z in [-10, 10].
C26_RoundTripExact ==
  /\ Computed(mapOut.canvas) =>
       mapOut.canvas = <<Num(mapIn.canvasX), Num(mapIn.canvasY)>>
  /\ WorldInRange

\* C26 (as amended): the canvas position that comes back differs from the one
\* that went in by at most 4 machine epsilons of the canvas width
\* (height), and the world position in between has y = 0 and x, z in
\* [-10, 10].
C26_RoundTripClose ==
  /\ Computed(mapOut.canvas) =>
       /\ FLe(FAbs(FSub(mapOut.canvas[1], Num(mapIn.canvasX))),
              FMul(Num(4 * mapIn.canvasWidth), Eps))
       /\ FLe(FAbs(FSub(mapOut.canvas[2], Num(mapIn.canvasY))),
              FMul(Num(4 * mapIn.canvasHeight), Eps))
  /\ WorldInRange

C26_Witness ==
  /\ Computed(mapOut.canvas)
  /\ mapIn.canvasWidth = 800
  /\ mapOut.canvas[1] # Num(mapIn.canvasX)
  /\ mapOut.canvas[2] # Num(mapIn.canvasY)

\* C27: an event of connection A (join-room, position-update, toggle-mute,
\* disconnect) leaves the record of every other connection B, in every room,
\* in place with its position and its muted flag.
C27_OthersRecordsKept ==
  [][ \A R \in DOMAIN rooms : \A B \in DOMAIN rooms[R] :
        B # last'.sock =>
          /\ R \in DOMAIN rooms'
          /\ B \in DOMAIN rooms'[R]
          /\ rooms'[R][B] = rooms[R][B]
    ]_vars

C27_Witness ==
  /\ last.op \in {"join-room", "disconnect"}
  /\ \E B \in Conns \ {last.sock} :
       /\ last.name = roomId[B]
       /\ InRoom(B)
       /\ rooms[roomId[B]][B].position # Origin

\* C28: a signaling message of A naming a live connection B other than A is
\* handed to B also when socket.roomId of A and of B differ or when either
\* of them has joined no room.
C28_NoRoomCheck ==
  ( /\ last.op \in SignalKinds
    /\ last.name \in Live
    /\ last.name # last.sock
    /\ \/ roomId[last.sock] # roomId[last.name]
       \/ joined[last.sock] = {}
       \/ joined[last.name] = {} )
  => CopiesIn(Msg(last.name, last.op, last.sock, Origin, FALSE, last.payload, NoUsers),
              emits) >= 1

C28_Witness ==
  /\ last.op = "offer"
  /\ last.name \in Live
  /\ joined[last.sock] = {}
  /\ roomId[last.name] \in RoomIds
  /\ Count(emits, last.name, "offer") = 1

\* C29: the existing-users sent to a joiner lists every member with the
\* position and the muted value that member's updates stored last (the
\* defaults when it sent none).
C29_SnapshotIsCurrent ==
  [][ (last'.op = "join-room" /\ njoins' = njoins + 1) =>
        \A d \in Received(emits', last'.sock, "existing-users") : \A u \in d.users :
          /\ u.position = updated[u.socketId].position
          /\ u.muted = updated[u.socketId].muted
    ]_vars

\* C30: one signaling message is handed to at most one connection, whatever
\* its target names.
C30_OneRecipient ==
  last.op \in SignalKinds => Cardinality({d.to : d \in BagToSet(emits)}) <= 1

\* C31: handling an offer, an answer or a candidate leaves the registry as it
\* was: the same rooms, the same members of every room, the same position and
\* muted flag of every record.
C31_SignalKeepsRegistry ==
  [][ last'.op \in SignalKinds => rooms' = rooms ]_vars

C31_Witness ==
  /\ last.op \in SignalKinds
  /\ emits # EmptyBag
  /\ InRoom(last.sock)
  /\ rooms[roomId[last.sock]][last.sock].position # Origin

\* C32: every room of the registry has at least one record.
C32_NoEmptyRoom ==
  \A R \in DOMAIN rooms : DOMAIN rooms[R] # {}

C32_Witness ==
  /\ last.op = "disconnect"
  /\ last.name # NoRoom
  /\ ~HasRoom(last.name)
  /\ rooms # <<>>

\* C33: on every page, whenever a link for peer P has been created more than
\* once, every earlier link for P was closed: no link is dropped from the map
\* by a later createPeerConnection while it is still open.
C33_NoLinkReplacedOpen ==
  \A c \in Conns, P \in Conns :
    \A n \in 1..(made[c][P] - 1) : <<P, n>> \in closed[c]

\* C34: on an open page an audio source for peer P exists only while the page
\* has a link and a participant record for P.
C34_SourceNeedsLinkAndRecord ==
  \A c \in Conns : page[c] = "open" =>
    \A P \in DOMAIN audioSources[c] :
      /\ P \in DOMAIN peerConnections[c]
      /\ P \in DOMAIN participants[c]

\* C35: when no message is waiting at any page, every open page that is a
\* member of its room has, for every other member of that room, a record
\* with the position and the muted flag the registry stores for that member.
C35_ViewsAgreeWhenQuiet ==
  (\A c \in Conns : recvq[c] = <<>>) =>
    \A c \in Conns : (page[c] = "open" /\ InRoom(c)) =>
      \A P \in DOMAIN rooms[roomId[c]] \ {c} :
        /\ P \in DOMAIN participants[c]
        /\ participants[c][P] = rooms[roomId[c]][P].position
        /\ mutedOf[c][P] = rooms[roomId[c]][P].muted

\* C36: a page whose getUserMedia was rejected is not a member of a room of
\* the registry (it has sent no join-room, or its socket is disconnected), and
\* no open page holds a link to it.
C36_NoMemberWithoutMedia ==
  \A c \in Conns : localStream[c] = "failed" =>
    /\ \A R \in DOMAIN rooms : c \notin DOMAIN rooms[R]
    /\ \A P \in Conns : page[P] = "open" => c \notin DOMAIN peerConnections[P]

\* C37: the room_participants table has at most one row for a room and a
\* user; a join to a room that is not in the rooms table inserts no row and
\* is answered with 404 (with 500 when the database reported an error).
C37_OneRowPerRoomAndUser ==
  /\ \A row \in BagToSet(roomParticipants) : CopiesIn(row, roomParticipants) <= 1
  /\ \A row \in BagToSet(roomParticipants) : row[1] \in RoomsTable
  /\ \A q \in 1..MaxRequests :
       (joinReq[q].pc = "done" /\ joinReq[q].roomId \notin RoomsTable) =>
         joinReq[q].status \in {404, 500}

====
